---- MODULE Spec2Model ----
(***************************************************************************)
(* Model of admin/src/components/CodeEditor/CodeEditor.tsx: the value      *)
(* codec (languageRegExp), the debounced emitter (Subject piped through    *)
(* debounceTime(1000)) and the component-local state of the CodeEditor     *)
(* React component, together with the host form that owns the value prop.  *)
(*                                                                         *)
(* Strings are sequences of tokens.  The tokens "__" and ";" are the two   *)
(* pieces of the marker `__<language>__;`, "\n" is a line terminator (the  *)
(* one thing `.` of the regular expression does not match) and every       *)
(* other token ("python", "x", "{}", ...) stands for a non-empty run of    *)
(* characters holding no underscore, no semicolon and no line terminator.  *)
(* The empty sequence is the empty string.                                 *)
(***************************************************************************)
EXTENDS Integers, Sequences, FiniteSets, TLC

VARIABLES
  isJson,              \* attribute.customField.endsWith('code-editor-json')
  languageFromOptions, \* attribute.options.language (<<>> when not set)
  defaultValue,        \* attribute.options.defaultValue || undefined (<<>>)
  value,               \* the value prop, owned by the host form
  status,              \* "unmounted", "mounted" or "crashed" (render threw)
  language,            \* useState(language)
  editorValue,         \* useState(editorValue)
  fullScreen,          \* useState(fullScreen)
  prevValue,           \* useState(prevValue)
  pending,             \* debounceTime: <<lastValue>> while a task is active
  timer,               \* debounceTime: ms left until the pending emission
  onChangeCalls,       \* calls of the host's onChange by this instance
  lastOnChange,        \* <<target.value>> of the last call of onChange
  \* history variables, read by the properties only
  quiet,               \* ms elapsed since the last push
  pushLang,            \* language selected when the pending text was pushed
  pushText,            \* text of the last push
  edits,               \* user edits since the last mount
  mountValue,          \* the value prop at the last mount
  toggles,             \* full-screen toggles since the last mount: 0, 1, 2, 1, 2, ...
  burst,               \* pushes of the current (or last) burst
  dropped,             \* the last unmount dropped a pending push
  extSincePush,        \* an external update happened since the last push
  ops                  \* mounts, edits and external updates so far

vars == <<isJson, languageFromOptions, defaultValue, value, status, language,
          editorValue, fullScreen, prevValue, pending, timer, onChangeCalls,
          lastOnChange, quiet, pushLang, pushText, edits, mountValue, toggles, burst, dropped, extSincePush, ops>>

props == <<isJson, languageFromOptions, defaultValue>>

(***************************************************************************)
(* Bounds of the exploration and the one program constant.                 *)
(***************************************************************************)
MaxOps == 3
MaxLanguages == 2
TickMs == 500
DebounceMs == 1000

Min(a, b) == IF a < b THEN a ELSE b
SetMin(S) == CHOOSE x \in S : \A y \in S : x <= y
SetMax(S) == CHOOSE x \in S : \A y \in S : x >= y

(***************************************************************************)
(* Values of the value prop: null, a string, or a non-string object (the   *)
(* empty object a JSON field can hold).                                    *)
(***************************************************************************)
Null == [kind |-> "null", str |-> <<>>]
Str(s) == [kind |-> "string", str |-> s]
EmptyObject == [kind |-> "object", str |-> <<>>]
Truthy(v) == v.kind = "object" \/ (v.kind = "string" /\ v.str # <<>>)

languages == <<"css", "dockerfile", "graphql", "html", "javascript", "json",
               "kotlin", "markdown", "mysql", "php", "plaintext", "powerquery",
               "powershell", "python", "scss", "shell", "sql", "typescript",
               "xml", "yaml">>

(***************************************************************************)
(* new RegExp('__(.+)__;'): the leftmost match, `.+` greedy, `.` matching  *)
(* anything but a line terminator.                                         *)
(***************************************************************************)
MatchEnds(s, i) ==
  { j \in (i + 2)..(Len(s) - 1) :
      /\ s[j] = "__"
      /\ s[j + 1] = ";"
      /\ \A k \in (i + 1)..(j - 1) : s[k] # "\n" }

MatchStarts(s) == { i \in 1..Len(s) : s[i] = "__" /\ MatchEnds(s, i) # {} }

languageRegExp(s) ==
  IF MatchStarts(s) = {}
  THEN [found |-> FALSE, from |-> 0, to |-> 0, group |-> <<>>]
  ELSE LET i == SetMin(MatchStarts(s))
           j == SetMax(MatchEnds(s, i))
       IN [found |-> TRUE, from |-> i, to |-> j + 1,
           group |-> SubSeq(s, i + 1, j - 1)]

\* value.replace(languageRegExp, '')
Replace(s) ==
  LET m == languageRegExp(s)
  IN IF m.found THEN SubSeq(s, 1, m.from - 1) \o SubSeq(s, m.to + 1, Len(s))
     ELSE s

\* languageFromValue; <<>> stands for null
languageFromValue(v) ==
  IF Truthy(v) /\ languageRegExp(v.str).found THEN languageRegExp(v.str).group
  ELSE <<>>

defaultLanguage(json) == IF json THEN <<"json">> ELSE <<"javascript">>

defaultValueForEditor(v, json, dflt) ==
  LET d == IF Truthy(v) THEN Replace(v.str) ELSE <<>>
  IN IF \/ (d = <<>> /\ dflt # <<>>)
        \/ (json /\ v.kind = "object" /\ dflt # <<>>)
     THEN dflt
     ELSE d

\* useState(languageFromOptions || languageFromValue || defaultLanguage)
InitialLanguage(v, json, opt) ==
  IF opt # <<>> THEN opt
  ELSE IF languageFromValue(v) # <<>> THEN languageFromValue(v)
  ELSE defaultLanguage(json)

\* Encode with the configured language ignored: a tag is added whenever the
\* field is not in JSON mode
EncodeIgnoringOptions(json, opt, lang, text) ==
  IF json THEN text
  ELSE <<"__">> \o lang \o <<"__", ";">> \o text

\* the argument of subject.next in handleChange
Encode(json, opt, lang, text) ==
  IF json \/ opt # <<>> THEN text
  ELSE <<"__">> \o lang \o <<"__", ";">> \o text

(***************************************************************************)
(* Inputs: the stored values, configurations, texts and updates explored.  *)
(***************************************************************************)
PythonPrint == <<"__", "python", "__", ";", "print(1)">>

StoredValues ==
  { Null, EmptyObject, Str(<<>>), Str(<<"a">>), Str(<<"{}">>),
    Str(PythonPrint), Str(<<"__", "python", "__", ";">>) }

ConfiguredLanguages == { <<>>, <<"sql">> }

DefaultValues == { <<>>, <<"{\"a\":1}">> }

EditTexts == { <<>>, <<"b">>, <<"b", "__", ";", "c">> }

ExternalValues == { Null, Str(<<"__", "yaml", "__", ";", "d">>) }

SelectableLanguages == { <<languages[i]>> : i \in 1..MaxLanguages }

(***************************************************************************)
(* The debounced stream: subject.pipe(debounceTime(1000)).                 *)
(***************************************************************************)
\* SubjectNext with a timer that an active task does not restart
SubjectNextNoRestart(v) ==
  /\ pending' = <<v>>
  /\ timer' = IF pending = <<>> THEN DebounceMs ELSE timer

\* subject.next(v): the last value is kept and the quiet period restarts
SubjectNext(v) ==
  /\ pending' = <<v>>
  /\ timer' = DebounceMs

\* handleChange, called with the `language` of the closure that runs it
handleChange(text, lang) ==
  /\ editorValue' = text
  /\ SubjectNext(Encode(isJson, languageFromOptions, lang, text))

\* handleOnChange: the host stores target.value and passes it back as value
handleOnChange(v) ==
  /\ onChangeCalls' = onChangeCalls + 1
  /\ lastOnChange' = <<v>>
  /\ value' = Str(v)
  /\ prevValue' = Str(v)

\* Unsubscribe that leaves the active task scheduled
UnsubscribeKeepingTask == UNCHANGED <<pending, timer>>

\* subscription.unsubscribe(): the active task and the last value are dropped
Unsubscribe ==
  /\ pending' = <<>>
  /\ timer' = 0

(***************************************************************************)
(* The operations of the component.                                        *)
(***************************************************************************)
\* MountComponent whose mount effect pushes the initial content even when empty
MountComponentAlwaysPushing ==
  IF value.kind = "object"
  THEN /\ status' = "crashed"
       /\ UNCHANGED <<language, editorValue, fullScreen, prevValue, pending, timer>>
  ELSE LET lang == InitialLanguage(value, isJson, languageFromOptions)
           text == defaultValueForEditor(value, isJson, defaultValue)
       IN /\ status' = "mounted"
          /\ language' = lang
          /\ fullScreen' = FALSE
          /\ prevValue' = value
          /\ handleChange(text, lang)

\* first render and the mount effect; value.match throws on a non-string
MountComponent ==
  IF value.kind = "object"
  THEN /\ status' = "crashed"
       /\ UNCHANGED <<language, editorValue, fullScreen, prevValue, pending, timer>>
  ELSE LET lang == InitialLanguage(value, isJson, languageFromOptions)
           text == defaultValueForEditor(value, isJson, defaultValue)
       IN /\ status' = "mounted"
          /\ language' = lang
          /\ fullScreen' = FALSE
          /\ prevValue' = value
          /\ IF text # <<>>
             THEN handleChange(text, lang)
             ELSE editorValue' = text /\ UNCHANGED <<pending, timer>>

\* SyncValue that shows the new value with its language tag left in
SyncValueKeepingTag(v) ==
  /\ value' = v
  /\ IF prevValue # v
     THEN /\ prevValue' = v
          /\ editorValue' = v.str
     ELSE UNCHANGED <<prevValue, editorValue>>

\* render after the host changed the value prop to v
SyncValue(v) ==
  /\ value' = v
  /\ IF prevValue # v
     THEN /\ prevValue' = v
          /\ editorValue' = IF Truthy(v) THEN Replace(v.str) ELSE <<>>
     ELSE UNCHANGED <<prevValue, editorValue>>

\* Select onChange={setLanguage}
setLanguage(l) == language' = l

\* setFullScreen that only ever expands
setFullScreenOn == fullScreen' = TRUE

\* IconButton onClick={() => setFullScreen((prev) => !prev)}
setFullScreen == fullScreen' = ~fullScreen

\* the cleanup of the mount effect; the component state is discarded
UnmountComponent ==
  /\ Unsubscribe
  /\ status' = "unmounted"
  /\ language' = <<>>
  /\ editorValue' = <<>>
  /\ fullScreen' = FALSE
  /\ prevValue' = Null

\* time passes while an emission is pending: at most up to the instant it is due
Elapse ==
  /\ pending # <<>>
  /\ timer > 0
  /\ timer' = timer - Min(TickMs, timer)

\* the debounce timer expires: the last value is emitted to handleOnChange
Emit ==
  /\ pending # <<>>
  /\ timer = 0
  /\ handleOnChange(pending[1])
  /\ pending' = <<>>

(***************************************************************************)
(* The state machine: each step is one operation plus its history.         *)
(***************************************************************************)
history == <<quiet, pushLang, pushText, edits, mountValue, toggles, burst,
            dropped, extSincePush>>

Init ==
  /\ isJson \in BOOLEAN
  /\ languageFromOptions \in ConfiguredLanguages
  /\ defaultValue \in DefaultValues
  /\ value \in StoredValues
  /\ status = "unmounted"
  /\ language = <<>>
  /\ editorValue = <<>>
  /\ fullScreen = FALSE
  /\ prevValue = Null
  /\ pending = <<>>
  /\ timer = 0
  /\ onChangeCalls = 0
  /\ lastOnChange = <<>>
  /\ quiet = 0
  /\ pushLang = <<>>
  /\ pushText = <<>>
  /\ edits = 0
  /\ mountValue = Null
  /\ toggles = 0
  /\ burst = 0
  /\ dropped = FALSE
  /\ extSincePush = FALSE
  /\ ops = 0

Mount ==
  /\ status = "unmounted"
  /\ ops < MaxOps
  /\ MountComponent
  /\ ops' = ops + 1
  /\ onChangeCalls' = 0
  /\ lastOnChange' = <<>>
  /\ mountValue' = value
  /\ edits' = 0
  /\ toggles' = 0
  /\ extSincePush' = FALSE
  /\ quiet' = 0
  /\ pushLang' = IF pending' # <<>> THEN language' ELSE <<>>
  /\ pushText' = IF pending' # <<>> THEN editorValue' ELSE <<>>
  /\ burst' = IF pending' # <<>> THEN 1 ELSE 0
  /\ dropped' = FALSE
  /\ UNCHANGED <<props, value>>

EditorChange ==
  \E text \in EditTexts :
    /\ status = "mounted"
    /\ ops < MaxOps
    /\ text # editorValue
    /\ handleChange(text, language)
    /\ ops' = ops + 1
    /\ edits' = 1
    /\ quiet' = 0
    /\ pushLang' = language
    /\ pushText' = text
    /\ burst' = IF pending = <<>> THEN 1 ELSE burst + 1
    /\ extSincePush' = FALSE
    /\ UNCHANGED <<props, value, status, language, fullScreen, prevValue,
                   onChangeCalls, lastOnChange, mountValue, toggles, dropped>>

SelectLanguage ==
  \E l \in SelectableLanguages :
    /\ status = "mounted"
    /\ ~isJson
    /\ languageFromOptions = <<>>
    /\ l # language
    /\ setLanguage(l)
    /\ UNCHANGED <<props, value, status, editorValue, fullScreen, prevValue,
                   pending, timer, onChangeCalls, lastOnChange, history,
                   ops>>

ToggleFullScreen ==
  /\ status = "mounted"
  /\ setFullScreen
  /\ toggles' = IF toggles = 2 THEN 1 ELSE toggles + 1
  /\ UNCHANGED <<props, value, status, language, editorValue, prevValue,
                 pending, timer, onChangeCalls, lastOnChange, quiet, pushLang,
                 pushText, edits, mountValue, burst, dropped, extSincePush, ops>>

ExternalUpdate ==
  \E v \in ExternalValues :
    /\ status = "mounted"
    /\ ops < MaxOps
    /\ v # value
    /\ SyncValue(v)
    /\ ops' = ops + 1
    /\ extSincePush' = (pending # <<>>)
    /\ UNCHANGED <<props, status, language, fullScreen, pending, timer,
                   onChangeCalls, lastOnChange, quiet, pushLang, pushText,
                   edits, mountValue, toggles, burst, dropped>>

Tick ==
  /\ Elapse
  /\ quiet' = quiet + Min(TickMs, DebounceMs - quiet)
  /\ UNCHANGED <<props, value, status, language, editorValue, fullScreen,
                 prevValue, pending, onChangeCalls, lastOnChange, pushLang,
                 pushText, edits, mountValue, toggles, burst, dropped,
                 extSincePush, ops>>

Fire ==
  /\ Emit
  /\ UNCHANGED <<props, status, language, editorValue, fullScreen, timer,
                 history, ops>>

Unmount ==
  /\ status = "mounted"
  /\ UnmountComponent
  /\ dropped' = (pending # <<>>)
  /\ burst' = 0
  /\ quiet' = 0
  /\ pushLang' = <<>>
  /\ pushText' = <<>>
  /\ edits' = 0
  /\ toggles' = 0
  /\ extSincePush' = FALSE
  /\ UNCHANGED <<props, value, onChangeCalls, lastOnChange, mountValue,
                 ops>>

Next ==
  \/ Mount
  \/ EditorChange
  \/ SelectLanguage
  \/ ToggleFullScreen
  \/ ExternalUpdate
  \/ Tick
  \/ Fire
  \/ Unmount

Spec == Init /\ [][Next]_vars

(***************************************************************************)
(* Properties.                                                             *)
(***************************************************************************)
Tagless == isJson \/ languageFromOptions # <<>>

\* a call of the host's onChange (Mount resets the count to 0)
Called == onChangeCalls' = onChangeCalls + 1

\* the wire format `__<language>__;<content>`
Tagged(lang, text) == <<"__">> \o lang \o <<"__", ";">> \o text

Enumerated(lang) == \E i \in 1..Len(languages) : lang = <<languages[i]>>

\* C1: a burst of pushes, each less than 1000 ms after the previous one, is
\* delivered to onChange exactly once: the emission is always due exactly
\* 1000 ms after the last push, a call of onChange happens only at that
\* instant, consumes the pending push and carries the encoded text of the
\* last push of the burst.
C1_BurstDeliveredOnce ==
  /\ [](pending # <<>> => timer = DebounceMs - quiet)
  /\ [][Called =>
          /\ pending # <<>>
          /\ quiet = DebounceMs
          /\ pending' = <<>>
          /\ lastOnChange' =
               <<Encode(isJson, languageFromOptions, pushLang, pushText)>>]_vars

C1_Witness ==
  /\ status = "mounted"
  /\ burst >= 2
  /\ pending = <<>>
  /\ onChangeCalls = 1
  /\ lastOnChange = <<Encode(isJson, languageFromOptions, pushLang, pushText)>>

C3_RoundTrip ==
  (pending # <<>> /\ Enumerated(pushLang)) =>
    /\ Replace(pending[1]) = pushText
    /\ languageFromValue(Str(pending[1])) = IF Tagless THEN <<>> ELSE pushLang

\* C4: once unmounted, onChange is never called; a push pending at the
\* unmount is dropped, not delivered.
C4_NoEmissionAfterUnmount ==
  /\ [][(status = "mounted" /\ status' = "unmounted") =>
          /\ onChangeCalls' = onChangeCalls
          /\ lastOnChange' = lastOnChange
          /\ value' = value]_vars
  /\ [][(status = "unmounted" /\ status' = "unmounted") =>
          /\ onChangeCalls' = onChangeCalls
          /\ lastOnChange' = lastOnChange
          /\ value' = value]_vars

C4_Witness ==
  /\ status = "unmounted"
  /\ dropped
  /\ onChangeCalls = 0
  /\ value = mountValue

\* C5: what is pushed, and so what is delivered, is the raw text in JSON mode
\* or with a configured language, and `__<language>__;<text>` with the
\* language selected at the push otherwise.
C5_EncodedForm ==
  /\ [](pending # <<>> =>
          pending[1] = IF Tagless THEN pushText ELSE Tagged(pushLang, pushText))
  /\ [][Called => lastOnChange' = pending]_vars

C5_Witness ==
  /\ onChangeCalls = 1
  /\ languageFromOptions # <<>>
  /\ ~isJson
  /\ edits = 1
  /\ pushText = <<"b">>
  /\ lastOnChange = <<pushText>>

\* C6: without JSON mode or a configured language, whenever no push is
\* pending the value held by the host resolves on a new mount to the
\* language selected in the selector.
C6_ReloadsSelectedLanguage ==
  (status = "mounted" /\ ~Tagless /\ pending = <<>>) =>
    InitialLanguage(value, isJson, languageFromOptions) = language

\* the language tag a stored value starts with (the wire format), if any
TagEnds(s) == { n \in 3..(Len(s) - 1) : s[n] = "__" /\ s[n + 1] = ";" }
HasTagPrefix(v) ==
  v.kind = "string" /\ Len(v.str) >= 4 /\ v.str[1] = "__" /\ TagEnds(v.str) # {}
TagPrefix(v) == SubSeq(v.str, 2, SetMin(TagEnds(v.str)) - 1)

\* C7: on mount the language is the configured one, else the one of the
\* stored value's `__<lang>__;` prefix, else "json" in JSON mode, else
\* "javascript"; `__python__;print(1)` gives python and print(1).
C7_InitialLanguageOrder ==
  [][(status = "unmounted" /\ status' = "mounted") =>
       /\ language' =
            IF languageFromOptions # <<>> THEN languageFromOptions
            ELSE IF HasTagPrefix(value) THEN TagPrefix(value)
            ELSE IF isJson THEN <<"json">>
            ELSE <<"javascript">>
       /\ (value = Str(PythonPrint) /\ languageFromOptions = <<>>) =>
            (language' = <<"python">> /\ editorValue' = <<"print(1)">>)]_vars

\* C8: in JSON mode with a configured default value, a stored empty object
\* `{}` mounts with the default value as the editor content.
C8_EmptyObjectGetsDefault ==
  [][(/\ status = "unmounted"
      /\ status' # "unmounted"
      /\ isJson
      /\ defaultValue # <<>>
      /\ value \in {EmptyObject, Str(<<"{}">>)}) =>
       (status' = "mounted" /\ editorValue' = defaultValue)]_vars

\* C9: a full-screen toggle flips fullScreen and changes nothing else; an
\* even number of toggles leaves fullScreen as it was at mount.
C9_ToggleOnlyFullScreen ==
  /\ [](status = "mounted" => (fullScreen <=> toggles = 1))
  /\ [][(toggles' # toggles /\ status' = status) =>
          /\ fullScreen' = ~fullScreen
          /\ UNCHANGED <<editorValue, language, pending, timer, onChangeCalls,
                         lastOnChange, value, prevValue>>]_vars

C9_Witness ==
  /\ status = "mounted"
  /\ toggles = 2
  /\ ~fullScreen
  /\ pending # <<>>

\* C10: an external update of the value prop replaces the editor content by
\* the decoded content of the new value and leaves the language, the pending
\* push and its timer alone; the pending push is still delivered afterwards.
C10_ExternalUpdateFrame ==
  /\ [][(/\ status = "mounted"
         /\ status' = "mounted"
         /\ value' # value
         /\ ~Called) =>
          /\ editorValue' = IF Truthy(value') THEN Replace(value'.str) ELSE <<>>
          /\ prevValue' = value'
          /\ UNCHANGED <<language, fullScreen, pending, timer, onChangeCalls,
                         lastOnChange>>]_vars
  /\ [][(Called /\ extSincePush) =>
          lastOnChange' =
            <<Encode(isJson, languageFromOptions, pushLang, pushText)>>]_vars
  /\ [](extSincePush => pending # <<>> \/ onChangeCalls >= 1)

C10_Witness ==
  /\ status = "mounted"
  /\ extSincePush
  /\ edits = 1
  /\ pending = <<>>
  /\ onChangeCalls >= 1
  /\ lastOnChange = <<Encode(isJson, languageFromOptions, pushLang, pushText)>>
  /\ value = Str(lastOnChange[1])

====
